---- MODULE Spec2Model ----
(***************************************************************************)
(* The REST action of the gateway: createRestAction and the async          *)
(* function `action` it returns (src/lib/components/rest.ts).              *)
(*                                                                         *)
(* One dispatch is one call of `action`.  Its synchronous segments are the *)
(* actions below, in program order (pc); the awaited calls (parameter      *)
(* producer, transport request, transform hooks) are where an action ends. *)
(* User-supplied callbacks and external collaborators are inputs: each     *)
(* call draws its outcome (a returned value, or a throw) from a set given  *)
(* by the input bounds B of the specification.  A configuration field that *)
(* the code reads once per dispatch is drawn where the code reads it; what *)
(* createRestAction itself reads or builds (the timeouts, the default      *)
(* transport) and the stats sink, read on both the success and the failure *)
(* path, are fixed in `created`.  A second dispatch may be in flight: while *)
(* the running one is suspended at an await its local state is swapped     *)
(* with the one held in `parked`.                                          *)
(***************************************************************************)
EXTENDS Integers, Sequences, FiniteSets, TLC

VARIABLES
    created,      \* what createRestAction fixed: sendStats, timeouts, defaultAxiosClient
    dispatches,   \* number of calls of `action` started so far
    uuidCount,    \* number of tokens uuidv4() has generated so far
    issuedKeys,   \* the tokens uuidv4() has generated so far, in order
    importedProxyHeaders, \* content of the imported array DEFAULT_PROXY_HEADERS
    parked,       \* the local state of a second dispatch suspended at an await
    pc,           \* position of the current dispatch
    call,         \* ApiActionConfig of the current dispatch
    events,       \* calls made on collaborators by the current dispatch, in order
    endpointData, \* resolved endpoint descriptor
    hdr,          \* header composition: hook results and actionHeaders
    prm,          \* outcome of config.params
    req,          \* transport selection and requestConfig
    rsp,          \* transport outcome, response.data, caught error, parsedError
    stats,        \* stats emissions of the dispatch (options.sendStats, ctx.stats)
    debugHeaders, \* the debugHeaders object of the dispatch
    result        \* how the promise returned by `action` settled

vars == <<created, dispatches, uuidCount, issuedKeys, importedProxyHeaders, parked,
          pc, call, events, endpointData, hdr,
          prm, req, rsp, stats, debugHeaders, result>>

\* Number of dispatches explored in sequence.
MaxDispatches == 2

(***************************************************************************)
(* JavaScript values                                                       *)
(***************************************************************************)
Undef == "undefined"

\* a || b on strings: undefined and the empty string are falsy
JsOr(a, b) == IF a \in {Undef, ""} THEN b ELSE a

\* a ?? b
JsNullish(a, b) == IF a = Undef THEN b ELSE a

\* Objects are functions from property names to values.
EmptyObject == [n \in {} |-> Undef]

\* obj[name]: undefined when the property is absent
Get(obj, name) == IF name \in DOMAIN obj THEN obj[name] ELSE Undef

\* Object.assign(target, source), {...target, ...source}
ObjectAssign(target, source) ==
    [n \in DOMAIN target \cup DOMAIN source |->
        IF n \in DOMAIN source THEN source[n] ELSE target[n]]

\* obj[name] = value
SetProperty(obj, name, value) == ObjectAssign(obj, name :> value)

\* _.omitBy(obj, _.isUndefined)
OmitUndefined(obj) == [n \in {m \in DOMAIN obj : obj[m] # Undef} |-> obj[n]]

\* Number of occurrences of e in the event sequence s
RECURSIVE Count(_, _)
Count(s, e) ==
    IF s = <<>> THEN 0
    ELSE (IF Head(s) = e THEN 1 ELSE 0) + Count(Tail(s), e)

(***************************************************************************)
(* Imported constants (../constants)                                       *)
(***************************************************************************)
DEFAULT_LANG_HEADER == "accept-language"
LangRu == "ru"
VERSION == "gateway-version"
DEFAULT_PROXY_HEADERS == <<"user-agent">>

(***************************************************************************)
(* Validation, lines 94-115                                                *)
(***************************************************************************)
\* config.validationSchema || options.validationSchema
ValidationSchema(configSchema, optionsSchema) == JsOr(configSchema, optionsSchema)

\* validateArgs(args, schema): the invalid fields, or nothing
validateArgs(args, schema) == IF args = "invalid" THEN "invalid-fields" ELSE Undef

\* Line 98 with the report ignored
InvalidParamsIgnored(invalidParams) == FALSE

\* Line 98: if (invalidParams)
InvalidParamsReported(invalidParams) == invalidParams # Undef

\* The rejection of lines 102-113
ValidationRejection(invalidParams, dbg) ==
    [error |-> [status |-> 400, message |-> "Validation failed",
                code |-> "INVALID_PARAMS",
                details |-> [title |-> "Invalid params", description |-> invalidParams]],
     debugHeaders |-> dbg]

(***************************************************************************)
(* Endpoint resolution, lines 117-144                                      *)
(***************************************************************************)
\* Endpoint descriptors: nothing, a bare base URL, or an extended descriptor
\* {path, axiosConfig?}.  axiosConfig is an object; `has` tells whether the
\* descriptor carries one.
NoEndpoint == [kind |-> "undefined", path |-> "", has |-> FALSE, axiosConfig |-> EmptyObject]
PlainEndpoint == [kind |-> "plain", path |-> "http://api:8080", has |-> FALSE,
                  axiosConfig |-> EmptyObject]
ExtendedEndpoint == [kind |-> "extended", path |-> "http://ext:8443", has |-> FALSE,
                     axiosConfig |-> EmptyObject]
RelativeEndpoint == [kind |-> "plain", path |-> "/local", has |-> FALSE,
                     axiosConfig |-> EmptyObject]
ExtendedEndpointWithConfig == [kind |-> "extended", path |-> "http://ext:8443", has |-> TRUE,
                               axiosConfig |-> ("timeout" :> "9s")]

\* endpoints?.[name], _.get(endpoints, [name])
EndpointOf(endpoints, name) == IF name \in DOMAIN endpoints THEN endpoints[name] ELSE NoEndpoint

\* Lines 117-123.  selector: [kind: "none" | "key" | "fn", key, returns]
ResolveEndpoint(endpoints, selector) ==
    IF selector.kind = "fn" THEN selector.returns
    ELSE IF selector.kind = "key" /\ selector.key # ""
         THEN EndpointOf(endpoints, selector.key)
    ELSE EndpointOf(endpoints, "endpoint")

\* Line 125 testing the endpoint table instead of the resolved entry
EndpointsMissing(ed) == FALSE

\* Line 125: if (!endpointData)
EndpointMissing(ed) == ed.kind = "undefined"

\* The rejection of lines 130-136
EndpointRejection ==
    [error |-> [status |-> 400, code |-> "ENDPOINT_NOT_FOUND",
                message |-> "Gateway config error. Endpoint has been not found in service"]]

\* Lines 139-141
ActionEndpoint(ed) == ed.path

\* Lines 142-144: endpointData.axiosConfig || {} for an extended descriptor, else {}
EndpointAxiosConfig(ed) == IF ed.kind = "extended" /\ ed.has THEN ed.axiosConfig ELSE EmptyObject

\* url.parse(actionURL).host, line 151/156: the host with its port
HostOf(actionEndpoint) ==
    IF actionEndpoint = "http://api:8080" THEN "api:8080"
    ELSE IF actionEndpoint = "http://ext:8443" THEN "ext:8443"
    ELSE Undef

(***************************************************************************)
(* Header composition, lines 152-197                                       *)
(***************************************************************************)
\* Line 81
LangOf(requestHeaders) == JsOr(Get(requestHeaders, DEFAULT_LANG_HEADER), LangRu)

\* Lines 154-161
SeedHeaders(host, lang) ==
    "host" :> host @@ "accept" :> "application/json, */*" @@
    "accept-encoding" :> "gzip, deflate" @@ "accept-language" :> lang @@
    "x-gateway-version" :> VERSION

\* Lines 163-167 and 169-173.  A proxyHeaders setting is
\* [kind: "none" | "list" | "fn", names, returns]; st is [headers, list].
ApplyProxyHeaders(st, setting) ==
    IF setting.kind = "fn"
    THEN [headers |-> ObjectAssign(st.headers, setting.returns), list |-> st.list]
    ELSE IF setting.kind = "list"
    THEN [headers |-> st.headers, list |-> st.list \o setting.names]
    ELSE st

\* One iteration of the loop of lines 175-179
PassThroughOneAlways(headers, headerName, requestHeaders) ==
    SetProperty(headers, headerName, Get(requestHeaders, headerName))

PassThroughOne(headers, headerName, requestHeaders) ==
    IF Get(headers, headerName) = Undef
    THEN SetProperty(headers, headerName, Get(requestHeaders, headerName))
    ELSE headers

\* Lines 175-179
RECURSIVE PassThrough(_, _, _)
PassThrough(headers, list, requestHeaders) ==
    IF list = <<>> THEN headers
    ELSE PassThrough(PassThroughOne(headers, Head(list), requestHeaders),
                     Tail(list), requestHeaders)

\* Lines 181-183
SetRequestId(headers, requestId) ==
    IF requestId \notin {Undef, ""}
    THEN SetProperty(headers, "x-request-id", requestId)
    ELSE headers

\* uuidv4(): the n-th token generated
Uuid(n) == IF n = 1 THEN "uuid-1" ELSE IF n = 2 THEN "uuid-2"
           ELSE IF n = 3 THEN "uuid-3" ELSE "uuid-4"

\* Whether line 186 calls uuidv4()
NeedsUuid(idempotency, requestHeaders) ==
    idempotency /\ Get(requestHeaders, "idempotency-key") \in {Undef, ""}

\* Lines 185-187 with a token generated whatever the inbound header holds
SetIdempotencyKeyFresh(headers, idempotency, requestHeaders, fresh) ==
    IF idempotency THEN SetProperty(headers, "idempotency-key", fresh) ELSE headers

\* Lines 185-187
SetIdempotencyKey(headers, idempotency, requestHeaders, fresh) ==
    IF idempotency
    THEN SetProperty(headers, "idempotency-key",
                     JsOr(Get(requestHeaders, "idempotency-key"), fresh))
    ELSE headers

\* What Object.assign copies from the value the auth provider returned (lines
\* 189-195, no await): the own properties of a header map, and nothing of a
\* promise.  auth: [kind: "returns" | "promise" | "throws", returns]
AssignedAuthHeaders(auth) == IF auth.kind = "promise" THEN EmptyObject ELSE auth.returns

\* Line 195 with the operands swapped: what is already set wins
MergeAuthHeadersFirst(headers, authHeaders) == ObjectAssign(authHeaders, headers)

\* Line 195
MergeAuthHeaders(headers, authHeaders) == ObjectAssign(headers, authHeaders)

\* Lines 152, 166 and 172 with proxyHeaders an alias of the imported array
ImportedAliased(imported, accumulated) == accumulated

\* Lines 152, 166 and 172: proxyHeaders is a copy, [...DEFAULT_PROXY_HEADERS],
\* so the pushes leave the imported array as it was
ImportedAfterPush(imported, accumulated) == imported

\* Lines 152-173: actionHeaders and proxyHeaders before the pass-through loop
ProxiedHeaders(requestHeaders, host, service, action) ==
    LET seeded == [headers |-> SeedHeaders(host, LangOf(requestHeaders)),
                   list |-> importedProxyHeaders]
    IN ApplyProxyHeaders(ApplyProxyHeaders(seeded, service), action)

\* Lines 152-179: actionHeaders after the pass-through loop
PassedHeaders(requestHeaders, host, service, action) ==
    LET proxied == ProxiedHeaders(requestHeaders, host, service, action)
    IN PassThrough(proxied.headers, proxied.list, requestHeaders)

\* Lines 181-187: actionHeaders after the idempotency step
KeyedHeaders(passed, requestHeaders, requestId, idempotency, fresh) ==
    SetIdempotencyKey(SetRequestId(passed, requestId), idempotency, requestHeaders, fresh)

\* Lines 181-197: the pruned actionHeaders
ComposeHeaders(passed, requestHeaders, requestId, idempotency, fresh, authHeaders) ==
    LET withKey == KeyedHeaders(passed, requestHeaders, requestId, idempotency, fresh)
    IN OmitUndefined(MergeAuthHeaders(withKey, authHeaders))

(***************************************************************************)
(* Parameters, body preview and debug headers, lines 199-245               *)
(***************************************************************************)
\* The result of config.params is [kind: "absent" | "throws" | "returns",
\* body, query, hasHeaders, headers]; a body is [kind, len], len being the
\* length of its percent-encoded rendering, or -1 when rendering it throws.
NoBody == [kind |-> "undefined", len |-> 9]

\* Line 209: params ?? {} destructured with defaults
ParamsOf(p, actionHeaders) ==
    IF p.kind = "returns"
    THEN [body |-> p.body, query |-> p.query,
          headers |-> IF p.hasHeaders THEN p.headers ELSE actionHeaders]
    ELSE [body |-> NoBody, query |-> Undef, headers |-> actionHeaders]

\* Line 227
PreviewLimit == 256

\* Lines 217-232: requestBody, "" standing for a requestBody left undefined
RequestBodyPreview(body) ==
    IF body.len < 0 THEN [set |-> FALSE, len |-> 0]
    ELSE IF body.len < PreviewLimit THEN [set |-> TRUE, len |-> body.len]
    ELSE [set |-> FALSE, len |-> 0]

\* Line 237: requestBody ? requestBody : null
DebugBody(preview) ==
    IF preview.set /\ preview.len > 0 THEN [null |-> FALSE, len |-> preview.len]
    ELSE [null |-> TRUE, len |-> 0]

\* Lines 234-245: debugHeaders, its string properties in `headers` and
\* x-api-request-body in `body`
DebugHeadersOf(method, requestUrl, preview, lang, requestId, headers) ==
    LET base == "x-api-request-method" :> method @@ "x-api-request-url" :> requestUrl @@
                "x-api-request-lang" :> lang @@ "x-request-id" :> requestId @@
                "x-gateway-version" :> VERSION
    IN [headers |-> IF Get(headers, "content-type") \notin {Undef, ""}
                    THEN SetProperty(base, "x-api-content-type", headers["content-type"])
                    ELSE base,
        body |-> DebugBody(preview)]

(***************************************************************************)
(* Transport selection and request, lines 72-73 and 247-289                *)
(***************************************************************************)
\* getAxiosClient(timeout, retries, axiosConfig): the client it hands back,
\* `builtBy` telling the call that built it
AxiosClient(timeout, axiosConfig, builtBy) ==
    [timeout |-> timeout, axiosConfig |-> axiosConfig, builtBy |-> builtBy]

\* Line 72
BaseTimeout(configTimeout, optionsTimeout) == JsNullish(configTimeout, optionsTimeout)

\* An object, even an empty one, is truthy
ObjectIsTruthy(obj) == TRUE

\* Line 251: actionConfig.timeout || endpointAxiosConfig
WantsCustomClient(callTimeout, endpointAxiosConfig) ==
    callTimeout \notin {Undef, ""} \/ ObjectIsTruthy(endpointAxiosConfig)

\* Lines 252-253
CustomActionTimeout(callTimeout, configTimeout, endpointAxiosConfig, timeout) ==
    JsNullish(callTimeout,
        JsNullish(configTimeout, JsNullish(Get(endpointAxiosConfig, "timeout"), timeout)))

\* ctx.getMetadata()
TracingMetadata == "x-trace-id" :> "trace"

\* Line 281: {...ctx.getMetadata(), ...headers}
RequestHeaders(metadata, headers) == ObjectAssign(metadata, headers)

(***************************************************************************)
(* Outcome of the transport and error normalisation, lines 291-404         *)
(***************************************************************************)
\* A thrown value: [response, responseStatus, hasStatus, status]
NoError == [response |-> FALSE, responseStatus |-> 0, hasStatus |-> FALSE, status |-> 0]

\* What a throwing stats sink throws: an error with no response and no status
SinkError == [response |-> FALSE, responseStatus |-> 0, hasStatus |-> FALSE, status |-> 0]

\* A parsed error is an object; NoParsedError stands for undefined
NoParsedError == [defined |-> FALSE, fields |-> EmptyObject]

\* parseRestError(error, lang), ../utils/parse-error
parseRestError(error, lang) ==
    [defined |-> TRUE,
     fields |-> [status |-> IF error.response THEN error.responseStatus ELSE 500,
                 code |-> "GATEWAY_REQUEST_ERROR", message |-> "Request failed",
                 details |-> lang]]

\* Lines 339-344 without the test for a response
RunsErrorHookAlways(error, hook) == hook.kind # "absent"

\* Lines 339-358: the hook runs when the thrown value carries a response and
\* the hook is defined
RunsErrorHook(error, hook) == error.response /\ hook.kind # "absent"

\* Lines 339-366.  hook: [kind: "absent" | "returns" | "throws", parsed];
\* parser: "returns" | "throws"
NormalizeErrorOf(error, hook, parser, lang) ==
    LET first == IF RunsErrorHook(error, hook) /\ hook.kind = "returns"
                 THEN hook.parsed ELSE NoParsedError
    IN IF first.defined THEN first
       ELSE IF parser = "returns" THEN parseRestError(error, lang)
       ELSE NoParsedError

\* Line 368: _.get(parsedError, 'status') || _.get(error, 'status', 500)
ResponseStatus(parsedError, error) ==
    IF parsedError.defined /\ "status" \in DOMAIN parsedError.fields
       /\ parsedError.fields["status"] # 0
    THEN parsedError.fields["status"]
    ELSE IF error.hasStatus THEN error.status ELSE 500

\* Lines 400-403
FailureRejection(parsedError, requestId, dbg) ==
    [error |-> ObjectAssign(parsedError.fields, "requestId" :> requestId),
     debugHeaders |-> dbg]

\* Line 332
SuccessValue(data, dbg) == [responseData |-> data, debugHeaders |-> dbg]

(***************************************************************************)
(* State of a dispatch                                                     *)
(***************************************************************************)
NoProxy == [kind |-> "none", names |-> <<>>, returns |-> EmptyObject]
NoCall == [args |-> "valid", requestId |-> Undef, headers |-> EmptyObject, timeout |-> Undef]
NoHdr == [composed |-> FALSE, service |-> NoProxy, action |-> NoProxy,
          list |-> <<>>, passed |-> EmptyObject,
          idempotency |-> FALSE, generated |-> Undef, auth |-> EmptyObject,
          authAsync |-> FALSE, authMap |-> EmptyObject, keyed |-> EmptyObject,
          actionHeaders |-> EmptyObject]
NoParams == [kind |-> "pending", body |-> NoBody, query |-> Undef,
             hasHeaders |-> FALSE, headers |-> EmptyObject]
NoClient == AxiosClient(Undef, EmptyObject, "nothing")
NoRequest == [issued |-> FALSE, client |-> NoClient, url |-> "", data |-> NoBody,
              params |-> Undef, headers |-> EmptyObject]
NoPayload == [name |-> "undefined", json |-> 0]
NoResponse == [kind |-> "pending", raw |-> NoPayload, data |-> NoPayload,
               dataHook |-> "pending", caught |-> NoError, errorHook |-> "pending",
               hookDefined |-> FALSE, first |-> NoParsedError, parser |-> "pending",
               parsedError |-> NoParsedError]
NoDebugHeaders == [headers |-> EmptyObject, body |-> [null |-> TRUE, len |-> 0]]
Pending == [settled |-> "pending", site |-> "", value |-> EmptyObject]
Settled(how, site, value) == [settled |-> how, site |-> site, value |-> value]

\* The local state of a dispatch: what `action` holds in its parameters,
\* constants and variables
Locals ==
    [pc |-> pc, call |-> call, events |-> events, endpointData |-> endpointData,
     hdr |-> hdr, prm |-> prm, req |-> req, rsp |-> rsp, stats |-> stats,
     debugHeaders |-> debugHeaders, result |-> result]

\* No second dispatch
NoDispatch ==
    [pc |-> "idle", call |-> NoCall, events |-> <<>>, endpointData |-> NoEndpoint,
     hdr |-> NoHdr, prm |-> NoParams, req |-> NoRequest, rsp |-> NoResponse,
     stats |-> <<>>, debugHeaders |-> NoDebugHeaders, result |-> Pending]

\* The calls on the child span at each of the four exits: lines 99-100,
\* 127-128, 329-330 and 392-398
ValidationExit == <<"ctx.end">>
EndpointExitOpen == <<>>
EndpointExit == <<"ctx.end">>
SuccessExit == <<"ctx.end">>
FailureExit == <<"ctx.logError", "ctx.end">>

\* The dispatch ending: the promise settles
Finish(r) ==
    /\ result' = r
    /\ pc' = "done"

(***************************************************************************)
(* createRestAction, lines 64-73                                           *)
(***************************************************************************)
CreateRestAction(o) ==
    [sendStats |-> o.sendStats, configTimeout |-> o.configTimeout,
     timeout |-> BaseTimeout(o.configTimeout, o.optionsTimeout),
     axiosConfig |-> o.axiosConfig,
     defaultAxiosClient |->
        AxiosClient(BaseTimeout(o.configTimeout, o.optionsTimeout), o.axiosConfig,
                    "createRestAction")]

InitOver(B) ==
    /\ created \in {CreateRestAction(o) : o \in B.options}
    /\ dispatches = 0
    /\ uuidCount = 0
    /\ issuedKeys = <<>>
    /\ importedProxyHeaders = DEFAULT_PROXY_HEADERS
    /\ parked = NoDispatch
    /\ pc = "idle"
    /\ call = NoCall
    /\ events = <<>>
    /\ endpointData = NoEndpoint
    /\ hdr = NoHdr
    /\ prm = NoParams
    /\ req = NoRequest
    /\ rsp = NoResponse
    /\ stats = <<>>
    /\ debugHeaders = NoDebugHeaders
    /\ result = Pending

(***************************************************************************)
(* action(actionConfig), lines 76-92: entry                                *)
(***************************************************************************)
Begin(B) ==
    /\ pc \in {"idle", "done"}
    /\ dispatches < MaxDispatches
    /\ \E c \in B.calls : call' = c
    /\ dispatches' = dispatches + 1
    /\ events' = <<"ctx.create">>
    /\ pc' = "validate"
    /\ endpointData' = NoEndpoint
    /\ hdr' = NoHdr
    /\ prm' = NoParams
    /\ req' = NoRequest
    /\ rsp' = NoResponse
    /\ stats' = <<>>
    /\ debugHeaders' = NoDebugHeaders
    /\ result' = Pending
    /\ UNCHANGED <<parked, importedProxyHeaders, created, uuidCount, issuedKeys>>

(***************************************************************************)
(* Lines 94-115                                                            *)
(***************************************************************************)
Validate(B) ==
    /\ pc = "validate"
    /\ \E cs \in B.configSchemas, os \in B.optionsSchemas :
        LET schema == ValidationSchema(cs, os)
            invalidParams == IF schema # Undef THEN validateArgs(call.args, schema) ELSE Undef
            called == IF schema # Undef THEN <<"validateArgs">> ELSE <<>>
        IN IF InvalidParamsReported(invalidParams)
           THEN /\ events' = events \o called \o ValidationExit
                /\ Finish(Settled("rejected", "validation",
                                  ValidationRejection(invalidParams, debugHeaders)))
           ELSE /\ events' = events \o called
                /\ pc' = "resolve"
                /\ UNCHANGED result
    /\ UNCHANGED <<parked, importedProxyHeaders, created, dispatches, uuidCount,
                   issuedKeys, call, endpointData, hdr, prm, req,
                   rsp, stats, debugHeaders>>

(***************************************************************************)
(* Lines 117-137                                                           *)
(***************************************************************************)
Resolve(B) ==
    /\ pc = "resolve"
    /\ \E e \in B.endpointCases :
        IF e.selector.kind = "fnThrows"
        THEN /\ events' = events \o <<"config.endpoint">>
             /\ Finish(Settled("rejected", "uncaught", EmptyObject))
             /\ UNCHANGED endpointData
        ELSE LET ed == ResolveEndpoint(e.endpoints, e.selector)
                 called == IF e.selector.kind = "fn" THEN <<"config.endpoint">> ELSE <<>>
             IN IF EndpointMissing(ed)
                THEN /\ events' = events \o called \o <<"resolve">> \o EndpointExit
                     /\ Finish(Settled("rejected", "endpoint", EndpointRejection))
                     /\ UNCHANGED endpointData
                ELSE /\ events' = events \o called \o <<"resolve">>
                     /\ endpointData' = ed
                     /\ pc' = "compose"
                     /\ UNCHANGED result
    /\ UNCHANGED <<parked, importedProxyHeaders, created, dispatches, uuidCount,
                   issuedKeys, call, hdr, prm, req, rsp, stats,
                   debugHeaders>>

(***************************************************************************)
(* Lines 139-197                                                           *)
(***************************************************************************)
\* The callbacks of lines 146-194 in call order, up to and including the
\* first one that throws
ComposeCalls(path, service, action, needsUuid, auth) ==
    LET p == IF path = "static" THEN <<>> ELSE <<"config.path">>
        s == IF service.kind \in {"fn", "fnThrows"} THEN <<"options.proxyHeaders">> ELSE <<>>
        a == IF action.kind \in {"fn", "fnThrows"} THEN <<"config.proxyHeaders">> ELSE <<>>
        u == IF needsUuid THEN <<"uuidv4">> ELSE <<>>
    IN IF path = "throws" THEN p
       ELSE IF service.kind = "fnThrows" THEN p \o s
       ELSE IF action.kind = "fnThrows" THEN p \o s \o a
       ELSE p \o s \o a \o u \o <<"getAuthHeaders">>

ComposeThrows(path, service, action, auth) ==
    \/ path = "throws"
    \/ service.kind = "fnThrows"
    \/ action.kind = "fnThrows"
    \/ auth.kind = "throws"

Compose(B) ==
    /\ pc = "compose"
    /\ \E path \in B.paths, service \in B.serviceProxy, action \in B.actionProxy,
          idempotency \in B.idempotency, auth \in B.auth :
        LET needsUuid == NeedsUuid(idempotency, call.headers)
            fresh == Uuid(uuidCount + 1)
            threw == ComposeThrows(path, service, action, auth)
            reachedUuid == path # "throws" /\ service.kind # "fnThrows"
                           /\ action.kind # "fnThrows"
            host == HostOf(ActionEndpoint(endpointData))
            passed == PassedHeaders(call.headers, host, service, action)
        IN /\ events' = events \o ComposeCalls(path, service, action, needsUuid, auth)
           /\ uuidCount' = IF needsUuid /\ reachedUuid THEN uuidCount + 1 ELSE uuidCount
           /\ importedProxyHeaders' =
                 ImportedAfterPush(importedProxyHeaders,
                     ProxiedHeaders(call.headers, host, service, action).list)
           /\ issuedKeys' = IF needsUuid /\ reachedUuid THEN Append(issuedKeys, fresh)
                            ELSE issuedKeys
           /\ IF threw
              THEN /\ Finish(Settled("rejected", "uncaught", EmptyObject))
                   /\ UNCHANGED hdr
              ELSE /\ hdr' = [composed |-> TRUE, service |-> service, action |-> action,
                              list |-> ProxiedHeaders(call.headers, host, service,
                                                      action).list,
                              passed |-> passed,
                              idempotency |-> idempotency,
                              generated |-> IF needsUuid THEN fresh ELSE Undef,
                              auth |-> AssignedAuthHeaders(auth),
                              authAsync |-> auth.kind = "promise",
                              authMap |-> auth.returns,
                              keyed |-> KeyedHeaders(passed, call.headers, call.requestId,
                                                     idempotency, fresh),
                              actionHeaders |->
                                ComposeHeaders(passed, call.headers, call.requestId,
                                               idempotency, fresh,
                                               AssignedAuthHeaders(auth))]
                   /\ pc' = "params"
                   /\ UNCHANGED result
    /\ UNCHANGED <<parked, created, dispatches, call, endpointData, prm, req, rsp, stats,
                   debugHeaders>>

(***************************************************************************)
(* Lines 199-292: parameters, debug headers, transport selection, request  *)
(***************************************************************************)
Method == "POST"
ActionPath == "/items"

\* Line 215
RequestUrl(actionURL, query) == IF query # Undef THEN actionURL \o "?" \o query ELSE actionURL

\* Lines 46 and 315: responseSize; a payload is [name, json], json being the
\* length of JSON.stringify(data), or -1 when stringify throws
ECMA_STRING_SIZE == 2
getRestResponseSize(data) == IF data.json < 0 THEN 0 ELSE ECMA_STRING_SIZE * data.json
SizeCalls(data) == IF data.json < 0 THEN <<"handleError">> ELSE <<>>

Params(B) ==
    /\ pc = "params"
    /\ \E p \in B.params, serializer \in B.serializers :
        LET got == ParamsOf(p, hdr.actionHeaders)
            producer == IF p.kind = "absent" THEN <<>>
                        ELSE IF p.kind = "throws" THEN <<"config.params", "handleError">>
                        ELSE <<"config.params">>
            serializes == serializer # "absent" /\ got.query # Undef
            actionURL == ActionEndpoint(endpointData) \o ActionPath
            preview == RequestBodyPreview(got.body)
            previewCalls == IF got.body.len < 0 THEN <<"handleError">> ELSE <<>>
            eac == EndpointAxiosConfig(endpointData)
            custom == WantsCustomClient(call.timeout, eac)
            client == IF custom
                      THEN AxiosClient(
                             CustomActionTimeout(call.timeout, created.configTimeout, eac,
                                                 created.timeout),
                             ObjectAssign(created.axiosConfig, eac), "action")
                      ELSE created.defaultAxiosClient
        IN /\ prm' = [kind |-> p.kind, body |-> p.body, query |-> p.query,
                      hasHeaders |-> p.hasHeaders, headers |-> p.headers]
           /\ IF serializes /\ serializer = "throws"
              THEN /\ events' = events \o producer \o <<"paramsSerializer">>
                   /\ Finish(Settled("rejected", "uncaught", EmptyObject))
                   /\ UNCHANGED <<req, debugHeaders>>
              ELSE /\ events' = events \o producer
                                \o (IF serializes THEN <<"paramsSerializer">> ELSE <<>>)
                                \o previewCalls
                                \o (IF custom THEN <<"getAxiosClient">> ELSE <<>>)
                                \o <<"request">>
                   /\ debugHeaders' = DebugHeadersOf(Method, RequestUrl(actionURL, got.query),
                                         preview, LangOf(call.headers), call.requestId,
                                         got.headers)
                   /\ req' = [issued |-> TRUE, client |-> client, url |-> actionURL,
                              data |-> got.body, params |-> got.query,
                              headers |-> RequestHeaders(TracingMetadata, got.headers)]
                   /\ pc' = "request"
                   /\ UNCHANGED result
    /\ UNCHANGED <<parked, importedProxyHeaders, created, dispatches, uuidCount,
                   issuedKeys, call, endpointData, hdr, rsp, stats>>

(***************************************************************************)
(* Line 292: the awaited transport request returns or throws               *)
(***************************************************************************)
Transport(B) ==
    /\ pc = "request"
    /\ \E t \in B.transport :
        /\ rsp' = [rsp EXCEPT !.kind = t.kind, !.raw = t.data, !.data = t.data,
                              !.caught = t.error]
        /\ events' = events \o <<IF t.kind = "response" THEN "request.returns"
                                 ELSE "request.throws">>
        /\ pc' = IF t.kind = "response" THEN "transform" ELSE "normalize"
    /\ UNCHANGED <<parked, importedProxyHeaders, created, dispatches, uuidCount,
                   issuedKeys, call, endpointData, hdr, prm, req,
                   stats, debugHeaders, result>>

(***************************************************************************)
(* Lines 294-309                                                           *)
(***************************************************************************)
Transformed == [name |-> "transformed", json |-> 11]

\* Lines 297-309.  hook: "absent" | "returns" | "throws"
TransformResponseData(data, hook) == IF hook = "returns" THEN Transformed ELSE data

TransformResponse(B) ==
    /\ pc = "transform"
    /\ \E hook \in B.transformData :
        /\ rsp' = [rsp EXCEPT !.data = TransformResponseData(rsp.data, hook),
                              !.dataHook = hook]
        /\ events' = events \o (IF hook = "absent" THEN <<>>
                                ELSE IF hook = "throws"
                                THEN <<"transformResponseData", "handleError">>
                                ELSE <<"transformResponseData">>)
    /\ pc' = "emitSuccess"
    /\ UNCHANGED <<parked, importedProxyHeaders, created, dispatches, uuidCount,
                   issuedKeys, call, endpointData, hdr, prm, req,
                   stats, debugHeaders, result>>

(***************************************************************************)
(* Lines 311-332.  A throw of the stats sink is caught at line 333         *)
(***************************************************************************)
StatsRecord(via, status, size) == [via |-> via, status |-> status, responseSize |-> size]

EmitSuccess(B) ==
    /\ pc = "emitSuccess"
    /\ \E sink \in B.sink :
        IF created.sendStats
        THEN /\ stats' = Append(stats, StatsRecord("sendStats", 200,
                                                   getRestResponseSize(rsp.data)))
             /\ IF sink = "throws"
                THEN /\ events' = events \o SizeCalls(rsp.data) \o <<"sendStats">>
                     /\ rsp' = [rsp EXCEPT !.caught = SinkError]
                     /\ pc' = "normalize"
                     /\ UNCHANGED result
                ELSE /\ events' = events \o SizeCalls(rsp.data) \o <<"sendStats">>
                                       \o SuccessExit
                     /\ Finish(Settled("resolved", "success",
                                       SuccessValue(rsp.data, debugHeaders)))
                     /\ UNCHANGED rsp
        ELSE /\ stats' = Append(stats, StatsRecord("ctx.stats", 200, 0))
             /\ events' = events \o <<"ctx.stats">> \o SuccessExit
             /\ Finish(Settled("resolved", "success", SuccessValue(rsp.data, debugHeaders)))
             /\ UNCHANGED rsp
    /\ UNCHANGED <<parked, importedProxyHeaders, created, dispatches, uuidCount,
                   issuedKeys, call, endpointData, hdr, prm, req,
                   debugHeaders>>

(***************************************************************************)
(* Lines 333-368                                                           *)
(***************************************************************************)
NormalizeError(B) ==
    /\ pc = "normalize"
    /\ \E hook \in B.transformError, parser \in B.parsers :
        LET runs == RunsErrorHook(rsp.caught, hook)
            first == IF runs /\ hook.kind = "returns" THEN hook.parsed ELSE NoParsedError
            hookCalls == IF ~runs THEN <<>>
                         ELSE IF hook.kind = "throws"
                         THEN <<"transformResponseError", "handleError">>
                         ELSE <<"transformResponseError">>
            parserCalls == IF first.defined THEN <<>>
                           ELSE IF parser = "throws" THEN <<"parseRestError", "handleError">>
                           ELSE <<"parseRestError">>
        IN /\ rsp' = [rsp EXCEPT !.errorHook = IF runs THEN hook.kind ELSE "skipped",
                         !.hookDefined = hook.kind # "absent",
                         !.first = first,
                         !.parser = IF first.defined THEN "skipped" ELSE parser,
                         !.parsedError = NormalizeErrorOf(rsp.caught, hook, parser,
                                                          LangOf(call.headers))]
           /\ events' = events \o hookCalls \o parserCalls
    /\ pc' = "emitFailure"
    /\ UNCHANGED <<parked, importedProxyHeaders, created, dispatches, uuidCount,
                   issuedKeys, call, endpointData, hdr, prm, req,
                   stats, debugHeaders, result>>

(***************************************************************************)
(* Lines 368-404.  A throw of the stats sink here is caught by nothing     *)
(***************************************************************************)
\* (error as any)?.response?.data
ErrorData(error) == IF error.response THEN [name |-> "error-body", json |-> 5] ELSE NoPayload

EmitFailure(B) ==
    /\ pc = "emitFailure"
    /\ \E sink \in B.sink :
        LET responseStatus == ResponseStatus(rsp.parsedError, rsp.caught)
            rejection == Settled("rejected", "failure",
                            FailureRejection(rsp.parsedError, call.requestId, debugHeaders))
        IN IF created.sendStats
           THEN /\ stats' = Append(stats, StatsRecord("sendStats", responseStatus,
                                       getRestResponseSize(ErrorData(rsp.caught))))
                /\ IF sink = "throws"
                   THEN /\ events' = events \o <<"sendStats">>
                        /\ Finish(Settled("rejected", "uncaught", EmptyObject))
                   ELSE /\ events' = events \o <<"sendStats">> \o FailureExit
                        /\ Finish(rejection)
           ELSE /\ stats' = Append(stats, StatsRecord("ctx.stats", responseStatus, 0))
                /\ events' = events \o <<"ctx.stats">> \o FailureExit
                /\ Finish(rejection)
    /\ UNCHANGED <<parked, importedProxyHeaders, created, dispatches, uuidCount,
                   issuedKeys, call, endpointData, hdr, prm, req,
                   rsp, debugHeaders>>

(***************************************************************************)
(* Two dispatches in flight.  `action` is an async function: a dispatch     *)
(* runs without interruption from one await to the next (lines 203, 292,   *)
(* 299, 346), and while it is suspended there another call of `action` may *)
(* start or resume.                                                        *)
(***************************************************************************)
SuspensionPoints == {"params", "request", "transform", "normalize"}

\* A second call of `action` while the first is suspended
Overlap(B) ==
    /\ pc \in SuspensionPoints
    /\ parked.pc = "idle"
    /\ dispatches < MaxDispatches
    /\ parked' = Locals
    /\ \E c \in B.calls : call' = c
    /\ dispatches' = dispatches + 1
    /\ events' = <<"ctx.create">>
    /\ pc' = "validate"
    /\ endpointData' = NoEndpoint
    /\ hdr' = NoHdr
    /\ prm' = NoParams
    /\ req' = NoRequest
    /\ rsp' = NoResponse
    /\ stats' = <<>>
    /\ debugHeaders' = NoDebugHeaders
    /\ result' = Pending
    /\ UNCHANGED <<importedProxyHeaders, created, uuidCount, issuedKeys>>

\* The running dispatch is suspended or has settled, and the other resumes
Switch ==
    /\ pc \in SuspensionPoints \cup {"done"}
    /\ parked.pc \in SuspensionPoints
    /\ parked' = Locals
    /\ pc' = parked.pc
    /\ call' = parked.call
    /\ events' = parked.events
    /\ endpointData' = parked.endpointData
    /\ hdr' = parked.hdr
    /\ prm' = parked.prm
    /\ req' = parked.req
    /\ rsp' = parked.rsp
    /\ stats' = parked.stats
    /\ debugHeaders' = parked.debugHeaders
    /\ result' = parked.result
    /\ UNCHANGED <<importedProxyHeaders, created, dispatches, uuidCount, issuedKeys>>

NextOver(B) ==
    \/ Begin(B)
    \/ Validate(B)
    \/ Resolve(B)
    \/ Compose(B)
    \/ Params(B)
    \/ Transport(B)
    \/ TransformResponse(B)
    \/ EmitSuccess(B)
    \/ NormalizeError(B)
    \/ EmitFailure(B)

(***************************************************************************)
(* Input bounds.  Spec follows whole dispatches over every way a dispatch  *)
(* can branch, with few header inputs; SpecHeaders follows dispatches up   *)
(* to the transport request over every combination of header sources.      *)
(***************************************************************************)
Call(args, requestId, headers, timeout) ==
    [args |-> args, requestId |-> requestId, headers |-> headers, timeout |-> timeout]
Options(sendStats, configTimeout) ==
    [sendStats |-> sendStats, configTimeout |-> configTimeout, optionsTimeout |-> "30s",
     axiosConfig |-> EmptyObject]
ProxyList(names) == [kind |-> "list", names |-> names, returns |-> EmptyObject]
ProxyFn(returns) == [kind |-> "fn", names |-> <<>>, returns |-> returns]
ProxyThrows == [kind |-> "fnThrows", names |-> <<>>, returns |-> EmptyObject]
AuthReturns(headers) == [kind |-> "returns", returns |-> headers]
AuthPromise(headers) == [kind |-> "promise", returns |-> headers]
AuthThrows == [kind |-> "throws", returns |-> EmptyObject]
Selector(kind, key, returns) == [kind |-> kind, key |-> key, returns |-> returns]
EndpointCase(endpoints, selector) == [endpoints |-> endpoints, selector |-> selector]
ParamsAbsent == [kind |-> "absent", body |-> NoBody, query |-> Undef,
                 hasHeaders |-> FALSE, headers |-> EmptyObject]
ParamsThrows == [kind |-> "throws", body |-> NoBody, query |-> Undef,
                 hasHeaders |-> FALSE, headers |-> EmptyObject]
ParamsReturns(body, query) == [kind |-> "returns", body |-> body, query |-> query,
                               hasHeaders |-> FALSE, headers |-> EmptyObject]
ParamsReturnsHeaders(headers) == [kind |-> "returns", body |-> NoBody, query |-> Undef,
                                  hasHeaders |-> TRUE, headers |-> headers]
Response(data) == [kind |-> "response", data |-> data, error |-> NoError]
Throws(error) == [kind |-> "error", data |-> NoPayload, error |-> error]
ErrorHook(kind, parsed) == [kind |-> kind, parsed |-> parsed]
ParsedError(fields) == [defined |-> TRUE, fields |-> fields]

Endpoints == "endpoint" :> PlainEndpoint @@ "billing" :> ExtendedEndpointWithConfig
NoEndpoints == [n \in {} |-> NoEndpoint]
Payload == [name |-> "payload", json |-> 7]
CircularPayload == [name |-> "circular", json |-> -1]
Http503 == [response |-> TRUE, responseStatus |-> 503, hasStatus |-> FALSE, status |-> 0]
TimeoutError == [response |-> FALSE, responseStatus |-> 0, hasStatus |-> FALSE, status |-> 0]
StatusError == [response |-> FALSE, responseStatus |-> 0, hasStatus |-> TRUE, status |-> 502]

ControlInputs ==
    [options |-> {Options(s, Undef) : s \in BOOLEAN},
     calls |-> {Call(a, r, EmptyObject, t) :
                  a \in {"valid", "invalid"}, r \in {Undef, "req-1"}, t \in {Undef, "5s"}},
     configSchemas |-> {Undef, "config-schema"},
     optionsSchemas |-> {Undef, "options-schema"},
     endpointCases |->
        {EndpointCase(t, sel) : t \in {Endpoints, NoEndpoints},
            sel \in {Selector("none", "", NoEndpoint), Selector("key", "billing", NoEndpoint),
                     Selector("key", "missing", NoEndpoint),
                     Selector("fn", "", NoEndpoint), Selector("fn", "", ExtendedEndpoint),
                     Selector("fnThrows", "", NoEndpoint)}},
     paths |-> {"static", "throws"},
     serviceProxy |-> {NoProxy, ProxyThrows},
     actionProxy |-> {NoProxy, ProxyThrows},
     idempotency |-> BOOLEAN,
     auth |-> {AuthReturns("authorization" :> "token"),
               AuthPromise("authorization" :> "token"), AuthThrows},
     params |-> {ParamsAbsent, ParamsThrows,
                 ParamsReturns([kind |-> "object", len |-> 40], "q=1"),
                 ParamsReturnsHeaders("content-type" :> "text/plain" @@ "x-opt" :> Undef)},
     serializers |-> {"absent", "returns", "throws"},
     transport |-> {Response(Payload), Response(CircularPayload), Throws(Http503),
                    Throws(TimeoutError), Throws(StatusError)},
     transformData |-> {"absent", "returns", "throws"},
     sink |-> {"returns", "throws"},
     transformError |-> {ErrorHook("absent", NoParsedError),
                         ErrorHook("returns", ParsedError([status |-> 418, code |-> "TEAPOT"])),
                         ErrorHook("returns", ParsedError([code |-> "NO_STATUS"])),
                         ErrorHook("returns", NoParsedError),
                         ErrorHook("throws", NoParsedError)},
     parsers |-> {"returns", "throws"}]

Init == InitOver(ControlInputs)
Next == NextOver(ControlInputs)
Spec == Init /\ [][Next]_vars

HeaderInputs ==
    [options |-> {Options(FALSE, Undef)},
     calls |-> {Call("valid", r, h, Undef) :
                  r \in {Undef, "req-1"},
                  h \in {EmptyObject,
                         "x" :> "in" @@ "user-agent" :> "in-agent" @@ "accept" :> "in-accept",
                         "x" :> "in" @@ "idempotency-key" :> "in-key"
                             @@ "accept-language" :> "en",
                         "host" :> "in-host" @@ "accept-language" :> ""
                             @@ "idempotency-key" :> ""}},
     configSchemas |-> {Undef},
     optionsSchemas |-> {Undef},
     endpointCases |-> {EndpointCase(Endpoints, Selector("none", "", NoEndpoint)),
                        EndpointCase(Endpoints, Selector("fn", "", RelativeEndpoint))},
     paths |-> {"static"},
     serviceProxy |-> {NoProxy, ProxyList(<<"x", "accept", "host">>), ProxyFn(EmptyObject),
                       ProxyFn("x" :> "service"), ProxyFn("x" :> Undef)},
     actionProxy |-> {NoProxy, ProxyList(<<"x">>), ProxyFn("user-agent" :> "action"),
                      ProxyFn("x" :> "action"), ProxyFn("x" :> Undef)},
     idempotency |-> BOOLEAN,
     auth |-> {AuthReturns(EmptyObject), AuthReturns("x" :> "auth"),
               AuthReturns("x" :> Undef @@ "authorization" :> "token"),
               AuthReturns("x-request-id" :> "auth" @@ "idempotency-key" :> "auth"
                           @@ "accept" :> "auth" @@ "user-agent" :> "auth"
                           @@ "x-trace-id" :> "auth")},
     params |-> {ParamsAbsent, ParamsThrows,
                 ParamsReturns([kind |-> "object", len |-> 40], Undef),
                 ParamsReturnsHeaders(EmptyObject),
                 ParamsReturnsHeaders("x" :> "params"),
                 ParamsReturnsHeaders("x" :> Undef @@ "authorization" :> "params")},
     serializers |-> {"absent"},
     transport |-> {Response(Payload), Throws(Http503)},
     transformData |-> {"absent"},
     sink |-> {"returns"},
     transformError |-> {ErrorHook("absent", NoParsedError)},
     parsers |-> {"returns"}]

InitHeaders == InitOver(HeaderInputs)
NextHeaders == NextOver(HeaderInputs)
SpecHeaders == InitHeaders /\ [][NextHeaders]_vars

\* SpecPreview follows dispatches over request bodies of every length around
\* the preview limit.  Body(kind, len): len is the length of the
\* percent-encoded rendering of lines 219-225.
Body(kind, len) == [kind |-> kind, len |-> len]

PreviewInputs ==
    [options |-> {Options(s, Undef) : s \in BOOLEAN},
     calls |-> {Call("valid", "req-1", EmptyObject, Undef)},
     configSchemas |-> {Undef},
     optionsSchemas |-> {Undef},
     endpointCases |-> {EndpointCase(Endpoints, Selector("none", "", NoEndpoint))},
     paths |-> {"static"},
     serviceProxy |-> {NoProxy},
     actionProxy |-> {NoProxy},
     idempotency |-> {FALSE},
     auth |-> {AuthReturns("authorization" :> "token")},
     params |-> {ParamsAbsent, ParamsThrows}
                \cup {ParamsReturns(Body("string", n), Undef) :
                        n \in {0, 1, PreviewLimit - 1, PreviewLimit, PreviewLimit + 1}}
                \cup {ParamsReturns(Body("object", 40), "q=1"),
                      ParamsReturns(Body("object", 3 * PreviewLimit), Undef),
                      ParamsReturns(Body("buffer", 8), Undef),
                      ParamsReturns(Body("circular", -1), Undef)},
     serializers |-> {"absent", "returns"},
     transport |-> {Response(Payload), Throws(Http503)},
     transformData |-> {"absent", "returns"},
     sink |-> {"returns"},
     transformError |-> {ErrorHook("absent", NoParsedError),
                         ErrorHook("returns", ParsedError([status |-> 418, code |-> "TEAPOT"]))},
     parsers |-> {"returns"}]

InitPreview == InitOver(PreviewInputs)
NextPreview == NextOver(PreviewInputs)
SpecPreview == InitPreview /\ [][NextPreview]_vars

\* SpecConcurrent follows two dispatches that overlap, interleaved at their
\* awaits, with different proxy-header lists, inbound headers and outcomes.
ConcurrentInputs ==
    [options |-> {Options(TRUE, Undef)},
     calls |-> {Call("valid", "req-1", "x" :> "in", Undef),
                Call("valid", Undef, EmptyObject, Undef)},
     configSchemas |-> {Undef},
     optionsSchemas |-> {Undef},
     endpointCases |-> {EndpointCase(Endpoints, Selector("none", "", NoEndpoint))},
     paths |-> {"static"},
     serviceProxy |-> {NoProxy, ProxyList(<<"x">>)},
     actionProxy |-> {NoProxy},
     idempotency |-> {TRUE},
     auth |-> {AuthReturns("authorization" :> "token")},
     params |-> {ParamsAbsent, ParamsReturns(Body("object", 40), "q=1")},
     serializers |-> {"absent"},
     transport |-> {Response(Payload), Throws(Http503)},
     transformData |-> {"absent", "returns"},
     sink |-> {"returns"},
     transformError |-> {ErrorHook("absent", NoParsedError)},
     parsers |-> {"returns"}]

InitConcurrent == InitOver(ConcurrentInputs)
NextConcurrent ==
    \/ NextOver(ConcurrentInputs)
    \/ Overlap(ConcurrentInputs)
    \/ Switch
SpecConcurrent == InitConcurrent /\ [][NextConcurrent]_vars

(***************************************************************************)
(* Properties                                                              *)
(***************************************************************************)
\* The four exits of a dispatch: the return statements of lines 332, 102,
\* 130 and 400.  A dispatch may also end by a throw that nothing catches
\* (site "uncaught").
FourExits == {"success", "validation", "endpoint", "failure"}

Range(seq) == {seq[i] : i \in 1..Len(seq)}

OneStatsEmissionPerDispatch ==
    (pc = "done" /\ result.site \in FourExits) => Len(stats) = 1

\* C3: when a validation schema is resolved and validateArgs reports invalid
\* fields, the dispatch rejects with status 400 and code INVALID_PARAMS, and
\* nothing but the validation ran: no endpoint resolution, no hook, no
\* parameter producer, no transport.
ValidationFailureRejectsFirst ==
    (pc \notin {"idle", "validate"} /\ Count(events, "validateArgs") = 1
        /\ call.args = "invalid") =>
       /\ pc = "done"
       /\ result.settled = "rejected"
       /\ result.site = "validation"
       /\ result.value.error.status = 400
       /\ result.value.error.code = "INVALID_PARAMS"
       /\ events = <<"ctx.create", "validateArgs", "ctx.end">>
       /\ endpointData = NoEndpoint
       /\ ~hdr.composed
       /\ prm.kind = "pending"
       /\ ~req.issued

\* C3 witness: a dispatch with invalid arguments has been rejected by the
\* validation.
ValidationRejected ==
    /\ pc = "done"
    /\ call.args = "invalid"
    /\ result.site = "validation"
    /\ result.value.error.code = "INVALID_PARAMS"

\* C4: when the endpoint resolution yields no entry, the dispatch rejects
\* with status 400 and code ENDPOINT_NOT_FOUND, and no transport is built
\* and no request issued.
UnresolvedEndpointRejects ==
    (Count(events, "resolve") = 1 /\ endpointData = NoEndpoint) =>
       /\ pc = "done"
       /\ result.settled = "rejected"
       /\ result.site = "endpoint"
       /\ result.value.error.status = 400
       /\ result.value.error.code = "ENDPOINT_NOT_FOUND"
       /\ Count(events, "getAxiosClient") = 0
       /\ Count(events, "request") = 0
       /\ ~req.issued

\* C4 witness: a selector function returned nothing and the dispatch was
\* rejected.
UnresolvedEndpointRejected ==
    /\ pc = "done"
    /\ result.site = "endpoint"
    /\ Count(events, "config.endpoint") = 1
    /\ result.value.error.code = "ENDPOINT_NOT_FOUND"

\* Whether the parameter producer returned headers of its own
ProducerSetHeaders == prm.kind = "returns" /\ prm.hasHeaders

\* C5 as stated: every header the auth provider returns with a defined value
\* is transmitted with the provider's value, whatever any other step set.
AuthHeadersAlwaysWin ==
    req.issued =>
       \A n \in DOMAIN hdr.auth :
          hdr.auth[n] # Undef => Get(req.headers, n) = hdr.auth[n]

\* C5 amended: every header the auth provider returns with a defined value
\* is transmitted with the provider's value, whatever the seed headers, the
\* proxy-header functions, the pass-through copy, the request id, the
\* idempotency step and the tracing metadata set for it, unless the parameter
\* producer returned headers of its own; then exactly those are transmitted
\* over the tracing metadata.
AuthHeadersWinOverComposition ==
    req.issued =>
       /\ ~ProducerSetHeaders =>
             \A n \in DOMAIN hdr.auth :
                hdr.auth[n] # Undef => Get(req.headers, n) = hdr.auth[n]
       /\ ProducerSetHeaders =>
             \A n \in DOMAIN prm.headers : req.headers[n] = prm.headers[n]

\* C5 witness: the auth provider's value was transmitted over an inbound
\* request id, an inbound idempotency key and the seeded accept header.
AuthOverridesTransmitted ==
    /\ req.issued
    /\ ~ProducerSetHeaders
    /\ call.requestId = "req-1"
    /\ hdr.idempotency
    /\ Get(call.headers, "idempotency-key") = "in-key"
    /\ Get(hdr.auth, "x-request-id") = "auth"
    /\ req.headers["x-request-id"] = "auth"
    /\ req.headers["idempotency-key"] = "auth"
    /\ req.headers["accept"] = "auth"

\* C6: the headers handed to the transport request hold no undefined value.
NoUndefinedTransmitted ==
    req.issued => \A n \in DOMAIN req.headers : req.headers[n] # Undef

\* C7: every rejection made at the validation, endpoint and transport
\* failure exits holds debugHeaders and an error with a status and the
\* request id of the call.
RejectionsAreStructured ==
    (pc = "done" /\ result.settled = "rejected"
        /\ result.site \in {"validation", "endpoint", "failure"}) =>
       /\ "debugHeaders" \in DOMAIN result.value
       /\ "status" \in DOMAIN result.value.error
       /\ Get(result.value.error, "requestId") = call.requestId

\* C8: when the transport returned and transformResponseData threw, the
\* dispatch resolves with the payload the transport returned.
TransformThrowKeepsSuccess ==
    (pc = "done" /\ rsp.kind = "response" /\ rsp.dataHook = "throws") =>
       /\ result.settled = "resolved"
       /\ result.value.responseData = rsp.raw

\* C9: a request of a call with no timeout of its own, to an endpoint with
\* no transport overrides, goes through the default transport built by
\* createRestAction, and the dispatch does not call getAxiosClient.
DefaultTransportReused ==
    (req.issued /\ call.timeout = Undef /\ ~endpointData.has) =>
       /\ req.client = created.defaultAxiosClient
       /\ Count(events, "getAxiosClient") = 0

\* What lines 154-173 set for a header name: the action-level function's
\* value, else the service-level function's, else the seed
FnTouches(setting, n) == setting.kind = "fn" /\ n \in DOMAIN setting.returns
FnSets(setting, n) == FnTouches(setting, n) /\ setting.returns[n] # Undef
SeedSets(n) ==
    \/ n \in {"accept", "accept-encoding", "accept-language", "x-gateway-version"}
    \/ n = "host" /\ endpointData # RelativeEndpoint

\* C10: for every name of the combined static proxy-header list (defaults,
\* service-level list, action-level list) the header after the pass-through
\* loop is the inbound value exactly when neither the seed nor a proxy-header
\* function left a value for it; a value set by a proxy-header function is
\* kept over the inbound one, and of two functions setting a name the
\* action-level one prevails.
PassThroughKeepsExplicit ==
    hdr.composed =>
       /\ Range(hdr.list) = Range(DEFAULT_PROXY_HEADERS)
             \cup (IF hdr.service.kind = "list" THEN Range(hdr.service.names) ELSE {})
             \cup (IF hdr.action.kind = "list" THEN Range(hdr.action.names) ELSE {})
       /\ \A n \in Range(hdr.list) :
            LET unset == IF FnTouches(hdr.action, n) THEN ~FnSets(hdr.action, n)
                         ELSE IF FnTouches(hdr.service, n) THEN ~FnSets(hdr.service, n)
                         ELSE ~SeedSets(n)
            IN /\ unset => Get(hdr.passed, n) = Get(call.headers, n)
               /\ FnSets(hdr.action, n) => hdr.passed[n] = hdr.action.returns[n]
               /\ (FnSets(hdr.service, n) /\ ~FnTouches(hdr.action, n)) =>
                     hdr.passed[n] = hdr.service.returns[n]
               /\ (~unset /\ ~FnTouches(hdr.action, n) /\ ~FnTouches(hdr.service, n)) =>
                     hdr.passed[n] = SeedHeaders(HostOf(ActionEndpoint(endpointData)),
                                                 LangOf(call.headers))[n]
       /\ \A n \in DOMAIN hdr.action.returns :
            (FnSets(hdr.service, n) /\ FnSets(hdr.action, n)) =>
               hdr.passed[n] = hdr.action.returns[n]

\* C10 witness: a name of the service-level list was set by the action-level
\* function, and its value was kept over the inbound one.
ExplicitKeptOverInbound ==
    /\ hdr.composed
    /\ hdr.service.kind = "list"
    /\ FnSets(hdr.action, "x")
    /\ Get(call.headers, "x") = "in"
    /\ hdr.passed["x"] = "action"

\* C11: when the auth provider returns its header map as a promise, the
\* headers handed to the transport request are the ones the dispatch hands
\* over when the provider returns the same map synchronously.
AsyncAuthHeadersTransmitted ==
    (req.issued /\ hdr.authAsync) =>
       req.headers =
          RequestHeaders(TracingMetadata,
             ParamsOf(prm, ComposeHeaders(hdr.passed, call.headers, call.requestId,
                                          hdr.idempotency, hdr.generated,
                                          hdr.authMap)).headers)

\* C12: when the action declares idempotency, the idempotency-key header
\* after the idempotency step is the inbound idempotency-key value when the
\* call carries one, else a token generated for this dispatch, and the
\* tokens generated so far are pairwise distinct; when the action does not
\* declare idempotency the step leaves the headers as they were and
\* generates nothing.
IdempotencyKeyInboundOrFresh ==
    hdr.composed =>
       LET inbound == Get(call.headers, "idempotency-key")
           present == inbound \notin {Undef, ""}
       IN /\ (hdr.idempotency /\ present) =>
                /\ hdr.keyed["idempotency-key"] = inbound
                /\ hdr.generated = Undef
          /\ (hdr.idempotency /\ ~present) =>
                /\ hdr.generated # Undef
                /\ hdr.keyed["idempotency-key"] = hdr.generated
                /\ issuedKeys # <<>>
                /\ issuedKeys[Len(issuedKeys)] = hdr.generated
          /\ ~hdr.idempotency =>
                /\ hdr.keyed = SetRequestId(hdr.passed, call.requestId)
                /\ hdr.generated = Undef
          /\ \A i, j \in 1..Len(issuedKeys) : i # j => issuedKeys[i] # issuedKeys[j]

\* C12 witness: a second dispatch without an inbound idempotency header got
\* a generated key, after an earlier dispatch had got one.
SecondGeneratedKeyDistinct ==
    /\ hdr.composed
    /\ hdr.idempotency
    /\ Len(issuedKeys) = 2
    /\ hdr.keyed["idempotency-key"] = issuedKeys[2]
    /\ issuedKeys[1] # issuedKeys[2]

\* C13: for every request body that has an encoded form, the debug header
\* x-api-request-body holds that form when its length is 0 to 255, and is
\* null when its length is 256 or more.
DebugBodyPreviewBelowLimit ==
    (req.issued /\ req.data.len >= 0) =>
       IF req.data.len < PreviewLimit
       THEN debugHeaders.body = [null |-> FALSE, len |-> req.data.len]
       ELSE debugHeaders.body.null

\* C14: in a dispatch that passed validation and endpoint resolution the
\* transport request is issued at most once, and the dispatch, once settled
\* after the request, has resolved if and only if the request returned a
\* response and has rejected if and only if the request threw.
FirstTransportOutcomeFinal ==
    /\ Count(events, "request") <= 1
    /\ (pc = "done" /\ req.issued) =>
          /\ (result.settled = "resolved") <=> (rsp.kind = "response")
          /\ (result.settled = "rejected") <=> (rsp.kind = "error")

\* The user-supplied callbacks that run outside a guarded step
Unguarded == {"config.endpoint", "config.path", "options.proxyHeaders",
              "config.proxyHeaders", "getAuthHeaders", "paramsSerializer"}

\* C15: when a callback that runs outside a guarded step (endpoint selector,
\* path function, proxy-header function, auth provider, query serializer)
\* has thrown and the dispatch has settled, the child span has been closed
\* exactly once.
SpanClosedWhenCallbackThrows ==
    (pc = "done" /\ result.site = "uncaught" /\ ~req.issued
        /\ events[Len(events)] \in Unguarded) =>
       Count(events, "ctx.end") = 1

\* Whether the error hook or the fallback parser threw in this dispatch
NormalizerThrew == rsp.errorHook = "throws" \/ rsp.parser = "throws"

\* C16: once the error normaliser has run, config.transformResponseError was
\* called (once) exactly when the thrown value carries a response and the
\* hook is defined; parseRestError was called (once) exactly when the hook
\* was not called, threw, or returned nothing; and after a hook or a parser
\* that threw the dispatch goes on to the stats emission, and from there to
\* the span close and the rejection of the failure exit as it does when
\* neither threw, that is whenever the stats sink has returned.
ErrorNormalizerBranches ==
    (pc \in {"emitFailure", "done"} /\ rsp.errorHook # "pending") =>
       LET hookCalled == Count(events, "transformResponseError")
           parserCalled == Count(events, "parseRestError")
           emitted == Count(events, "sendStats") + Count(events, "ctx.stats")
           sinkThrew == result.site = "uncaught"
       IN /\ hookCalled = (IF rsp.caught.response /\ rsp.hookDefined THEN 1 ELSE 0)
          /\ parserCalled = (IF hookCalled = 1 /\ rsp.errorHook = "returns"
                                /\ rsp.first.defined THEN 0 ELSE 1)
          /\ (rsp.parser = "throws") => ~rsp.parsedError.defined
          /\ (pc = "done" /\ NormalizerThrew) =>
                /\ stats # <<>>
                /\ emitted >= 1
                /\ result.settled = "rejected"
                /\ ~sinkThrew =>
                      /\ result.site = "failure"
                      /\ Count(events, "ctx.end") = 1
                      /\ events[Len(events)] = "ctx.end"

\* C16 witness: the hook threw, then the fallback parser threw, and the
\* dispatch still emitted its stats, closed the span and rejected.
RejectedAfterHookAndParserThrew ==
    /\ pc = "done"
    /\ rsp.errorHook = "throws"
    /\ rsp.parser = "throws"
    /\ result.site = "failure"
    /\ Len(stats) = 1
    /\ Count(events, "ctx.end") = 1

\* The status line 368 is to resolve for the caught error: the normalised
\* error's status, else the raw thrown error's status, else 500
ExpectedFailureStatus ==
    IF rsp.parsedError.defined /\ "status" \in DOMAIN rsp.parsedError.fields
    THEN rsp.parsedError.fields["status"]
    ELSE IF rsp.caught.hasStatus THEN rsp.caught.status
    ELSE 500

\* C17: every stats emission of a settled dispatch reports status 200 when
\* the transport request returned a response, and when it threw the
\* normalised error's status if it has one, else the thrown error's status
\* if it has one, else 500.
ReportedStatusResolved ==
    (pc = "done" /\ req.issued) =>
       \A i \in 1..Len(stats) :
          stats[i].status = (IF rsp.kind = "response" THEN 200 ELSE ExpectedFailureStatus)

\* C18: once config.params has thrown, the transport request is issued with
\* no body, no query and the composed, pruned action headers, and the
\* dispatch, once settled, has resolved exactly when the request returned a
\* response and rejected exactly when it threw.
ParamsThrowDegrades ==
    (prm.kind = "throws") =>
       /\ req.issued
       /\ req.data = NoBody
       /\ req.params = Undef
       /\ req.headers = RequestHeaders(TracingMetadata, hdr.actionHeaders)
       /\ \A n \in DOMAIN hdr.actionHeaders : hdr.actionHeaders[n] # Undef
       /\ pc = "done" =>
             /\ (result.settled = "resolved") <=> (rsp.kind = "response")
             /\ (result.settled = "rejected") <=> (rsp.kind = "error")

\* Position of the first occurrence of e in the event sequence s, 0 for none
Position(s, e) ==
    IF \E i \in 1..Len(s) : s[i] = e
    THEN CHOOSE i \in 1..Len(s) : s[i] = e /\ \A j \in 1..(i - 1) : s[j] # e
    ELSE 0

StatsCalls == {"sendStats", "ctx.stats"}
TransportOutcomes == {"request.returns", "request.throws"}

\* C19: in a dispatch that issues a transport request every stats emission
\* comes after the transport request has returned or thrown, and the settled
\* dispatch has made a stats emission and then called ctx.end(), once, as the
\* last call on the child span.
OutcomeThenStatsThenEnd ==
    /\ \A i \in 1..Len(events) :
          events[i] \in StatsCalls =>
             \E j \in 1..(i - 1) : events[j] \in TransportOutcomes
    /\ (pc = "done" /\ req.issued) =>
          /\ \E i \in 1..Len(events) : events[i] \in StatsCalls
          /\ Count(events, "ctx.end") = 1
          /\ events[Len(events)] = "ctx.end"
          /\ \A i \in 1..Len(events) :
                events[i] \in StatsCalls => i < Position(events, "ctx.end")

\* The names a static proxy-header setting adds to the list
ListNames(setting) == IF setting.kind = "list" THEN setting.names ELSE <<>>

\* What a dispatch with local state d produces when it runs alone: every
\* product is determined by the dispatch's own inputs (its call, the values
\* its callbacks returned, the outcome of its transport request)
Alone(d) ==
    LET host == HostOf(ActionEndpoint(d.endpointData))
        seeded == [headers |-> SeedHeaders(host, LangOf(d.call.headers)),
                   list |-> DEFAULT_PROXY_HEADERS]
        proxied == ApplyProxyHeaders(ApplyProxyHeaders(seeded, d.hdr.service), d.hdr.action)
        passed == PassThrough(proxied.headers, proxied.list, d.call.headers)
        composed == ComposeHeaders(passed, d.call.headers, d.call.requestId,
                                   d.hdr.idempotency, d.hdr.generated, d.hdr.auth)
        got == ParamsOf(d.prm, composed)
        dbg == DebugHeadersOf(Method, RequestUrl(d.req.url, got.query),
                              RequestBodyPreview(got.body), LangOf(d.call.headers),
                              d.call.requestId, got.headers)
        via == IF created.sendStats THEN "sendStats" ELSE "ctx.stats"
    IN /\ d.hdr.composed =>
             /\ d.hdr.list = DEFAULT_PROXY_HEADERS \o ListNames(d.hdr.service)
                                                   \o ListNames(d.hdr.action)
             /\ d.hdr.actionHeaders = composed
       /\ d.req.issued =>
             /\ d.req.headers = RequestHeaders(TracingMetadata, got.headers)
             /\ d.debugHeaders = dbg
       /\ (d.pc = "done" /\ d.result.site = "success") =>
             /\ d.result.value = SuccessValue(d.rsp.data, dbg)
             /\ d.stats = <<StatsRecord(via, 200,
                               IF created.sendStats THEN getRestResponseSize(d.rsp.data)
                               ELSE 0)>>
       /\ (d.pc = "done" /\ d.result.site = "failure") =>
             /\ d.result.value = FailureRejection(d.rsp.parsedError, d.call.requestId, dbg)
             /\ d.stats[Len(d.stats)].status = ResponseStatus(d.rsp.parsedError, d.rsp.caught)

\* C20: for every interleaving of two dispatches at their awaits, the
\* transmitted headers, the debug headers, the stats record and the result
\* of each are what that dispatch produces alone; the proxy-header list of
\* one holds no name accumulated by the other.
DispatchesDoNotInterfere ==
    /\ Alone(Locals)
    /\ Alone(parked)

\* C20 witness: two dispatches overlapped, one with a service-level
\* proxy-header list and one without, and both have settled after their
\* transport requests.
OverlappingDispatchesSettled ==
    /\ pc = "done"
    /\ parked.pc = "done"
    /\ req.issued
    /\ parked.req.issued
    /\ hdr.service = NoProxy
    /\ parked.hdr.service = ProxyList(<<"x">>)
    /\ Get(call.headers, "x") = "in"
    /\ "x" \notin DOMAIN req.headers
    /\ hdr.list = DEFAULT_PROXY_HEADERS

====
